---------------------------- MODULE Spec2Model ----------------------------
(***************************************************************************)
(* A model of the event-driven XML writer of xml-no-std.                   *)
(*                                                                         *)
(*   src/src/writer.rs     EventWriter: new_with_config, write, inner_mut, *)
(*                         into_inner                                      *)
(*   src/src/attribute.rs  Attribute and its textual form                  *)
(*                                                                         *)
(* The Emitter, the EmitterConfig, the NamespaceStack, the Name type and   *)
(* the escaping engine are used by these files but their sources are not   *)
(* among them; they are modelled from spec.md (sections 3, 4, 6 and 7).    *)
(*                                                                         *)
(* Text that the program inspects character by character (escaped values,  *)
(* comment and CDATA contents, processing-instruction names) is a sequence *)
(* of one-character strings.  The sink is the sequence of the pieces of    *)
(* markup and text appended to it, in order; the String it holds is their  *)
(* concatenation, SinkText.                                                *)
(***************************************************************************)
EXTENDS Integers, Sequences, FiniteSets, TLC

VARIABLES
    writers,   \* writer id -> NoWriter, Consumed, or an EventWriter value
    last,      \* the last call: what was called, on what, and what it returned
    calls,     \* writer id -> what its caller submitted so far
    budget     \* how many more calls the bounded exploration accepts

vars == <<writers, last, calls, budget>>

----------------------------------------------------------------------------
(* Bounds of the exploration.                                              *)

MaxEvents == 3          \* write calls in one run
MaxOtherEvents == 1     \* those among them that are not element events
MaxElementEvents == 4   \* write calls in a run of element events only
IsoEvents == 2          \* write calls in a run where writers come and go
MaxNew == 1             \* writers constructed after the first, in such a run
MaxLen == 3             \* length of the texts given to the escaping engine alone

----------------------------------------------------------------------------
(* Text.                                                                   *)

RECURSIVE Str(_)
\* The string spelled by a sequence of one-character strings.
Str(s) == IF s = <<>> THEN "" ELSE Head(s) \o Str(Tail(s))

\* s contains pat as a contiguous subsequence (str::contains).
Contains(s, pat) ==
    \E i \in 1..(Len(s) - Len(pat) + 1) : SubSeq(s, i, i + Len(pat) - 1) = pat

\* s ends with pat (str::ends_with).
EndsWith(s, pat) ==
    /\ Len(s) >= Len(pat)
    /\ SubSeq(s, Len(s) - Len(pat) + 1, Len(s)) = pat

\* u8::to_ascii_lowercase on the letters the model uses.
ToAsciiLower(c) ==
    CASE c = "X" -> "x"
      [] c = "M" -> "m"
      [] c = "L" -> "l"
      [] c = "P" -> "p"
      [] OTHER -> c

\* str::eq_ignore_ascii_case.
EqIgnoreAsciiCase(s, t) ==
    /\ Len(s) = Len(t)
    /\ \A i \in 1..Len(s) : ToAsciiLower(s[i]) = ToAsciiLower(t[i])

\* Option: no element, or one.
None == <<>>
Some(x) == <<x>>
IsSome(o) == o # <<>>
Unwrap(o) == o[1]
\* Option::unwrap_or
UnwrapOr(o, d) == IF o = <<>> THEN d ELSE o[1]

----------------------------------------------------------------------------
(* Escaping engine (spec.md 4.2).                                          *)

AttributeEscapes == "Attribute"
PcDataEscapes == "Text"
Contexts == {AttributeEscapes, PcDataEscapes}

\* The replacement of one character in a context.
EscapeChar(ctx, c) ==
    CASE c = "&" -> <<"&", "a", "m", "p", ";">>
      [] c = "<" -> <<"&", "l", "t", ";">>
      [] c = ">" -> <<"&", "g", "t", ";">>
      [] c = "\"" /\ ctx = AttributeEscapes -> <<"&", "q", "u", "o", "t", ";">>
      [] c = "'" /\ ctx = AttributeEscapes -> <<"&", "a", "p", "o", "s", ";">>
      [] OTHER -> <<c>>

RECURSIVE Escaped(_, _)
\* Escaped::<ctx>::new(s), fully consumed: the escaped text, in order.
Escaped(ctx, s) ==
    IF s = <<>> THEN <<>> ELSE EscapeChar(ctx, Head(s)) \o Escaped(ctx, Tail(s))

----------------------------------------------------------------------------
(* Names and attributes.                                                   *)

\* Name { local_name, namespace, prefix }
Name(local, ns, prefix) == [local_name |-> local, namespace |-> ns, prefix |-> prefix]

\* The form a name takes in markup: prefix:local, or local.
ReprDisplay(name) ==
    IF IsSome(name.prefix)
    THEN Unwrap(name.prefix) \o ":" \o name.local_name
    ELSE name.local_name

\* impl Display for Name: {namespace}prefix:local
NameDisplay(name) ==
    (IF IsSome(name.namespace) THEN "{" \o Unwrap(name.namespace) \o "}" ELSE "")
        \o ReprDisplay(name)

\* Attribute::new
Attribute(name, value) == [name |-> name, value |-> value]

\* AttributeDisplay with the value escaped as text.
AttributeDisplay_text(attr) ==
    NameDisplay(attr.name) \o "=\"" \o Str(Escaped(PcDataEscapes, attr.value)) \o "\""

\* impl Display for Attribute: name="value", the value escaped as an attribute
AttributeDisplay(attr) ==
    NameDisplay(attr.name) \o "=\"" \o Str(Escaped(AttributeEscapes, attr.value)) \o "\""

----------------------------------------------------------------------------
(* Namespace stack (spec.md 3 and 4.3).  A scope maps each prefix to its   *)
(* URI, or to NoUri when the scope does not bind it; "" is the default     *)
(* namespace.  The innermost scope is the last element of the stack.       *)

NoUri == "NoUri"
Prefixes == {"", "n"}
\* The order in which a scope's bindings are enumerated.
PrefixOrder == <<"", "n">>

EmptyScope == [p \in Prefixes |-> NoUri]

\* NamespaceStack::empty
NamespaceStack_empty == <<>>

\* push_empty: begin a new scope; the stack then has a top scope.
push_empty(nst) == Append(nst, EmptyScope)

\* checked_target().extend(bindings): insert the bindings into the top scope.
extend(nst, bindings) ==
    [nst EXCEPT ![Len(nst)] =
        [p \in Prefixes |-> IF bindings[p] # NoUri THEN bindings[p] ELSE @[p]]]

\* try_pop: remove the top scope; nothing happens on an empty stack.
try_pop(nst) == IF nst = <<>> THEN nst ELSE SubSeq(nst, 1, Len(nst) - 1)

RECURSIVE resolve(_, _)
\* resolve(prefix): the URI of the innermost scope that binds the prefix.
resolve(nst, prefix) ==
    IF nst = <<>> THEN NoUri
    ELSE IF nst[Len(nst)][prefix] # NoUri THEN nst[Len(nst)][prefix]
    ELSE resolve(SubSeq(nst, 1, Len(nst) - 1), prefix)

----------------------------------------------------------------------------
(* Emitter configuration (spec.md 6).                                      *)

\* indent_char repeated indent_size times, and line_separator
IndentUnit == "  "
LineSeparator == "\n"

\* The configurations explored: every combination of the options that decide
\* what is written and whether a call fails; the layout option is left off.
Configs ==
    [perform_indent : {FALSE},
     perform_escaping : BOOLEAN,
     write_document_declaration : BOOLEAN,
     normalize_empty_elements : BOOLEAN,
     cdata_to_characters : BOOLEAN,
     pad_self_closing : BOOLEAN]

----------------------------------------------------------------------------
(* Emitter (spec.md 3, 4.4 and 7).  Every emit operation takes the sink    *)
(* and the emitter and yields the result of the call with the sink and the *)
(* emitter it leaves.                                                      *)

\* Append one piece to the sink; appending nothing leaves it as it is.
Put(sink, piece) == IF piece = "" THEN sink ELSE Append(sink, piece)

RECURSIVE SinkText(_)
\* The String the sink holds.
SinkText(sink) == IF sink = <<>> THEN "" ELSE Head(sink) \o SinkText(Tail(sink))

Ok == "Ok"
DocumentStartAlreadyEmitted == "DocumentStartAlreadyEmitted"
DocumentStartAfterRootOpened == "DocumentStartAfterRootOpened"
ReservedProcessingInstructionName == "ReservedProcessingInstructionName"
EndElementNameIsNotEqualToLastStartElementName ==
    "EndElementNameIsNotEqualToLastStartElementName"
LastElementNameNotAvailable == "LastElementNameNotAvailable"
IllegalCommentContent == "IllegalCommentContent"
IllegalCDataContent == "IllegalCDataContent"

Outcome(res, sink, emitter) == [res |-> res, sink |-> sink, emitter |-> emitter]

\* Emitter::new: no scope, no open element, depth 0, no pending open tag.
Emitter_new(config) ==
    [config |-> config,
     nst |-> NamespaceStack_empty,
     element_names |-> <<>>,
     indent_level |-> 0,
     just_wrote_start_element |-> FALSE,
     start_document_emitted |-> FALSE,
     root_opened |-> FALSE]

RECURSIVE Repeat(_, _)
Repeat(s, n) == IF n = 0 THEN "" ELSE s \o Repeat(s, n - 1)

\* Newline and depth-proportional indentation before a tag, when configured
\* and something was written before it.
Indentation(config, sink, depth) ==
    IF config.perform_indent /\ sink # <<>>
    THEN LineSeparator \o Repeat(IndentUnit, depth)
    ELSE ""

\* What terminates a pending open tag that is about to gain content.
PendingTerminator(emitter) == IF emitter.just_wrote_start_element THEN ">" ELSE ""

\* Resolve a pending open tag: terminate it with ">" and clear the flag.
fix_non_empty_element(sink, emitter) ==
    Outcome(Ok, Put(sink, PendingTerminator(emitter)),
            [emitter EXCEPT !.just_wrote_start_element = FALSE])

\* <?xml version="..." encoding="..." standalone="..."?>
Declaration(version, encoding, standalone) ==
    "<?xml version=\"" \o version \o "\" encoding=\"" \o encoding \o "\""
        \o (IF IsSome(standalone)
            THEN " standalone=\"" \o (IF Unwrap(standalone) THEN "yes" ELSE "no") \o "\""
            ELSE "")
        \o "?>"

emit_start_document(sink, emitter, version, encoding, standalone) ==
    IF emitter.start_document_emitted
    THEN Outcome(DocumentStartAlreadyEmitted, sink, emitter)
    ELSE IF emitter.root_opened
    THEN Outcome(DocumentStartAfterRootOpened, sink, emitter)
    ELSE Outcome(Ok, Put(sink, Declaration(version, encoding, standalone)),
                 [emitter EXCEPT !.start_document_emitted = TRUE])

\* The declaration written on the caller's behalf when the root element opens
\* and no declaration was submitted.
DefaultDeclaration == Declaration("1.0", "UTF-8", None)

check_document_started(sink, emitter) ==
    IF emitter.config.write_document_declaration /\ ~emitter.start_document_emitted
    THEN Outcome(Ok, Put(sink, DefaultDeclaration),
                 [emitter EXCEPT !.start_document_emitted = TRUE])
    ELSE Outcome(Ok, sink, emitter)

emit_processing_instruction(sink, emitter, name, data) ==
    IF EqIgnoreAsciiCase(name, <<"x", "m", "l">>)
    THEN Outcome(ReservedProcessingInstructionName, sink, emitter)
    ELSE LET f == fix_non_empty_element(sink, emitter)
         IN  Outcome(Ok,
                     Put(f.sink, "<?" \o Str(name)
                                     \o (IF IsSome(data) THEN " " \o Unwrap(data) ELSE "")
                                     \o "?>"),
                     f.emitter)

RECURSIVE AttributesText(_, _)
\* Each attribute as name="value" in submitted order, escaped unless disabled.
AttributesText(config, attributes) ==
    IF attributes = <<>> THEN ""
    ELSE LET attr == Head(attributes)
         IN  " " \o ReprDisplay(attr.name) \o "=\""
                 \o (IF config.perform_escaping
                     THEN Str(Escaped(AttributeEscapes, attr.value))
                     ELSE Str(attr.value))
                 \o "\"" \o AttributesText(config, Tail(attributes))

\* One binding of a scope as a namespace declaration.
NamespaceDeclaration(prefix, uri) ==
    IF uri = NoUri THEN ""
    ELSE IF prefix = "" THEN " xmlns=\"" \o uri \o "\""
    ELSE " xmlns:" \o prefix \o "=\"" \o uri \o "\""

RECURSIVE ScopeText(_, _)
\* The declarations of the bindings of a scope, over the prefixes in order.
ScopeText(scope, order) ==
    IF order = <<>> THEN ""
    ELSE NamespaceDeclaration(Head(order), scope[Head(order)])
             \o ScopeText(scope, Tail(order))

\* The namespace declarations of the element being opened: the bindings of the
\* top scope, which the caller has pushed and filled.
emit_current_namespace_attributes(emitter) ==
    IF emitter.nst = <<>> THEN ""
    ELSE ScopeText(emitter.nst[Len(emitter.nst)], PrefixOrder)

emit_start_element(sink, emitter, name, attributes) ==
    LET d == check_document_started(sink, emitter)
        f == fix_non_empty_element(d.sink, d.emitter)
    IN  Outcome(Ok,
                Put(Put(f.sink, Indentation(emitter.config, f.sink, emitter.indent_level)),
                    "<" \o ReprDisplay(name)
                        \o AttributesText(emitter.config, attributes)
                        \o emit_current_namespace_attributes(emitter)),
                [f.emitter EXCEPT
                    !.just_wrote_start_element = TRUE,
                    !.indent_level = @ + 1,
                    !.element_names = Append(@, name),
                    !.root_opened = TRUE])

\* Names are equal when their namespace and local name are; the prefix is
\* presentational.
NameEq(a, b) == a.namespace = b.namespace /\ a.local_name = b.local_name

\* The terminator of a collapsed empty element.
SelfClosing(config) == IF config.pad_self_closing THEN " />" ELSE "/>"

\* </prefix:local>
EndTag(name) == "</" \o ReprDisplay(name) \o ">"

\* emit_end_element ending the outermost open element.
emit_end_element_outermost(sink, emitter, name) ==
    IF emitter.element_names = <<>>
    THEN \* no element is open: nothing to close, nothing changes
         Outcome(LastElementNameNotAvailable, sink, emitter)
    ELSE LET last_name == Head(emitter.element_names)
             popped == [emitter EXCEPT
                           !.element_names = Tail(@),
                           !.indent_level = @ - 1]
         IN  IF IsSome(name) /\ ~NameEq(Unwrap(name), last_name)
             THEN Outcome(EndElementNameIsNotEqualToLastStartElementName, sink, popped)
             ELSE IF emitter.just_wrote_start_element
             THEN Outcome(Ok,
                          IF emitter.config.normalize_empty_elements
                          THEN Put(sink, SelfClosing(emitter.config))
                          ELSE Put(Put(sink, ">"), EndTag(last_name)),
                          [popped EXCEPT !.just_wrote_start_element = FALSE])
             ELSE Outcome(Ok,
                          Put(Put(sink, Indentation(emitter.config, sink, popped.indent_level)),
                              EndTag(last_name)),
                          popped)

emit_end_element(sink, emitter, name) ==
    IF emitter.element_names = <<>>
    THEN \* no element is open: nothing to close, nothing changes
         Outcome(LastElementNameNotAvailable, sink, emitter)
    ELSE LET last_name == emitter.element_names[Len(emitter.element_names)]
             popped == [emitter EXCEPT
                           !.element_names = SubSeq(@, 1, Len(@) - 1),
                           !.indent_level = @ - 1]
         IN  IF IsSome(name) /\ ~NameEq(Unwrap(name), last_name)
             THEN Outcome(EndElementNameIsNotEqualToLastStartElementName, sink, popped)
             ELSE IF emitter.just_wrote_start_element
             THEN Outcome(Ok,
                          IF emitter.config.normalize_empty_elements
                          THEN Put(sink, SelfClosing(emitter.config))
                          ELSE Put(Put(sink, ">"), EndTag(last_name)),
                          [popped EXCEPT !.just_wrote_start_element = FALSE])
             ELSE Outcome(Ok,
                          Put(Put(sink, Indentation(emitter.config, sink, popped.indent_level)),
                              EndTag(last_name)),
                          popped)

\* A comment may not contain "--" nor end with "-".
IllegalComment(content) == Contains(content, <<"-", "-">>) \/ EndsWith(content, <<"-">>)

emit_comment(sink, emitter, content) ==
    IF IllegalComment(content)
    THEN Outcome(IllegalCommentContent, sink, emitter)
    ELSE LET f == fix_non_empty_element(sink, emitter)
         IN  Outcome(Ok, Put(f.sink, "<!--" \o Str(content) \o "-->"), f.emitter)

\* emit_characters has no failure: the caller wraps what it returns in Ok.
emit_characters(sink, emitter, content) ==
    LET f == fix_non_empty_element(sink, emitter)
    IN  Outcome(Ok,
                Put(f.sink, IF emitter.config.perform_escaping
                            THEN Str(Escaped(PcDataEscapes, content))
                            ELSE Str(content)),
                f.emitter)

\* emit_cdata has no failure either: the caller wraps what it returns in Ok.
emit_cdata(sink, emitter, content) ==
    IF emitter.config.cdata_to_characters
    THEN emit_characters(sink, emitter, content)
    ELSE LET f == fix_non_empty_element(sink, emitter)
         IN  Outcome(Ok, Put(f.sink, "<![CDATA[" \o Str(content) \o "]]>"), f.emitter)

----------------------------------------------------------------------------
(* Events (spec.md 3).                                                     *)

StartDocument(version, encoding, standalone) ==
    [type |-> "StartDocument", version |-> version, encoding |-> encoding,
     standalone |-> standalone]
ProcessingInstruction(name, data) ==
    [type |-> "ProcessingInstruction", name |-> name, data |-> data]
StartElement(name, attributes, namespace) ==
    [type |-> "StartElement", name |-> name, attributes |-> attributes,
     namespace |-> namespace]
EndElement(name) == [type |-> "EndElement", name |-> name]
Comment(content) == [type |-> "Comment", content |-> content]
CData(content) == [type |-> "CData", content |-> content]
Characters(content) == [type |-> "Characters", content |-> content]

----------------------------------------------------------------------------
(* EventWriter (src/src/writer.rs).                                        *)

\* new_with_config with a namespace stack that already holds a scope.
new_with_config_scoped(config) ==
    [sink |-> <<>>, emitter |-> [Emitter_new(config) EXCEPT !.nst = <<EmptyScope>>]]

\* EventWriter::new_with_config: an empty sink and a new emitter.
new_with_config(config) == [sink |-> <<>>, emitter |-> Emitter_new(config)]

\* PushNamespace with the bindings left out of the new scope.
PushNamespace_unbound(emitter, namespace) ==
    [emitter EXCEPT !.nst = push_empty(@)]

\* PushNamespace with the bindings put into the scope that was the top one.
PushNamespace_outer(emitter, namespace) ==
    [emitter EXCEPT !.nst = push_empty(IF @ = <<>> THEN @ ELSE extend(@, namespace))]

\* self.emitter.namespace_stack_mut().push_empty().checked_target().extend(..)
PushNamespace(emitter, namespace) ==
    [emitter EXCEPT !.nst = extend(push_empty(@), namespace)]

\* PopNamespace with the pop left out.
PopNamespace_kept(emitter) == emitter

\* self.emitter.namespace_stack_mut().try_pop()
PopNamespace(emitter) == [emitter EXCEPT !.nst = try_pop(@)]

\* What a call of write yields: its result and the writer it leaves.
Written(o) == [res |-> o.res, writer |-> [sink |-> o.sink, emitter |-> o.emitter]]

\* The arms of the match of EventWriter::write, one per event variant.
\* write_StartDocument with another encoding for a declaration that names none.
write_StartDocument_utf16(self, event) ==
    Written(emit_start_document(self.sink, self.emitter, event.version,
                                UnwrapOr(event.encoding, "UTF-16"), event.standalone))

\* write_StartDocument with the emitter's result dropped.
write_StartDocument_ok(self, event) ==
    LET r == emit_start_document(self.sink, self.emitter, event.version,
                                 UnwrapOr(event.encoding, "UTF-8"), event.standalone)
    IN  Written(Outcome(Ok, r.sink, r.emitter))

write_StartDocument(self, event) ==
    Written(emit_start_document(self.sink, self.emitter, event.version,
                                UnwrapOr(event.encoding, "UTF-8"), event.standalone))

\* write_ProcessingInstruction with the data left out.
write_ProcessingInstruction_nodata(self, event) ==
    Written(emit_processing_instruction(self.sink, self.emitter, event.name, None))

write_ProcessingInstruction(self, event) ==
    Written(emit_processing_instruction(self.sink, self.emitter, event.name, event.data))

\* write_StartElement with no scope pushed for the element.
write_StartElement_unscoped(self, event) ==
    Written(emit_start_element(self.sink, self.emitter, event.name, event.attributes))

write_StartElement(self, event) ==
    Written(emit_start_element(self.sink, PushNamespace(self.emitter, event.namespace),
                               event.name, event.attributes))

\* write_EndElement with the emitter's result dropped.
write_EndElement_ok(self, event) ==
    LET r == emit_end_element(self.sink, self.emitter, event.name)
    IN  Written(Outcome(Ok, r.sink, PopNamespace(r.emitter)))

\* write_EndElement popping before the emitter is called and again after it.
write_EndElement_twice(self, event) ==
    LET r == emit_end_element(self.sink, PopNamespace(self.emitter), event.name)
    IN  Written(Outcome(r.res, r.sink, PopNamespace(r.emitter)))

\* write_EndElement popping the scope only when the emitter succeeded.
write_EndElement_onsuccess(self, event) ==
    LET r == emit_end_element(self.sink, self.emitter, event.name)
    IN  Written(Outcome(r.res, r.sink,
                        IF r.res = Ok THEN PopNamespace(r.emitter) ELSE r.emitter))

write_EndElement(self, event) ==
    LET r == emit_end_element(self.sink, self.emitter, event.name)
    IN  Written(Outcome(r.res, r.sink, PopNamespace(r.emitter)))

\* write_Comment with a scope pushed for the comment.
write_Comment_scoped(self, event) ==
    Written(emit_comment(self.sink, PushNamespace(self.emitter, EmptyScope), event.content))

\* write_Comment with the emitter's result dropped.
write_Comment_ok(self, event) ==
    LET r == emit_comment(self.sink, self.emitter, event.content)
    IN  Written(Outcome(Ok, r.sink, r.emitter))

write_Comment(self, event) ==
    Written(emit_comment(self.sink, self.emitter, event.content))

\* write_CData with the markers written whatever cdata_to_characters says.
write_CData_marked(self, event) ==
    LET r == emit_cdata(self.sink,
                        [self.emitter EXCEPT !.config.cdata_to_characters = FALSE],
                        event.content)
    IN  Written(Outcome(Ok, r.sink, [r.emitter EXCEPT !.config = self.emitter.config]))

write_CData(self, event) ==
    LET r == emit_cdata(self.sink, self.emitter, event.content)
    IN  Written(Outcome(Ok, r.sink, r.emitter))

\* write_Characters escaping whatever perform_escaping says.
write_Characters_escaped(self, event) ==
    LET r == emit_characters(self.sink,
                             [self.emitter EXCEPT !.config.perform_escaping = TRUE],
                             event.content)
    IN  Written(Outcome(Ok, r.sink, [r.emitter EXCEPT !.config = self.emitter.config]))

\* write_Characters with a pending open tag taken for resolved.
write_Characters_unresolved(self, event) ==
    LET r == emit_characters(self.sink,
                             [self.emitter EXCEPT !.just_wrote_start_element = FALSE],
                             event.content)
    IN  Written(Outcome(Ok, r.sink, r.emitter))

write_Characters(self, event) ==
    LET r == emit_characters(self.sink, self.emitter, event.content)
    IN  Written(Outcome(Ok, r.sink, r.emitter))

\* EventWriter::write
write(self, event) ==
    CASE event.type = "StartDocument" -> write_StartDocument(self, event)
      [] event.type = "ProcessingInstruction" -> write_ProcessingInstruction(self, event)
      [] event.type = "StartElement" -> write_StartElement(self, event)
      [] event.type = "EndElement" -> write_EndElement(self, event)
      [] event.type = "Comment" -> write_Comment(self, event)
      [] event.type = "CData" -> write_CData(self, event)
      [] event.type = "Characters" -> write_Characters(self, event)

\* EventWriter::inner_mut: the sink itself, nothing written.
inner_mut(self) == self.sink

\* EventWriter::into_inner: the sink; the emitter is dropped with the writer.
into_inner(self) == self.sink

----------------------------------------------------------------------------
(* The inputs the exploration draws from.                                  *)

WriterIds == {1, 2}

StartDocuments ==
    {StartDocument("1.0", None, None),
     StartDocument("1.0", Some("UTF-8"), None),
     StartDocument("1.1", Some("latin1"), Some(TRUE))}

ProcessingInstructions ==
    {ProcessingInstruction(<<"x", "m", "l">>, None),
     ProcessingInstruction(<<"X", "m", "L">>, Some("d")),
     ProcessingInstruction(<<"p", "i">>, None),
     ProcessingInstruction(<<"p", "i">>, Some("d"))}

NameA == Name("a", Some("urn:namespace"), Some("n"))
NameB == Name("b", None, None)
AttrName == Name("attribute", Some("urn:namespace"), Some("n"))
WeirdValue == <<"v", ">", "&", "\"", "'", "<">>

Bindings(default, n) == [p \in Prefixes |-> IF p = "" THEN default ELSE n]

StartElements ==
    {StartElement(NameA, <<>>, Bindings(NoUri, "urn:namespace")),
     StartElement(NameB, <<Attribute(AttrName, WeirdValue)>>,
                  Bindings("urn:default", "urn:other"))}
EndNames == {None, Some(NameA), Some(NameB)}

CommentTexts ==
    {<<"f">>, <<"a", "-", "-", "b">>, <<"t", "-">>, <<"a", "-", "b">>}
CDataTexts == {<<"a", "&", "b">>, <<"a", "]", "]", ">", "b">>}
CharactersTexts == {<<"&", "<", ">", "\"", "'">>, <<"a">>}

EscapeAlphabet == {"&", "<", ">", "\"", "'", "a", ";"}
RECURSIVE TextsUpTo(_)
\* Every text over EscapeAlphabet of length at most n.
TextsUpTo(n) ==
    IF n = 0 THEN {<<>>}
    ELSE LET shorter == TextsUpTo(n - 1)
         IN  shorter \cup {Append(t, c) : t \in shorter, c \in EscapeAlphabet}

----------------------------------------------------------------------------
(* State.                                                                  *)

NoCall ==
    [op |-> "none", w |-> 0, event |-> None, res |-> Ok, pre |-> None, ret |-> None]

\* A writer id names a writer, or none: not yet constructed, or consumed.
Live(w) == writers[w] # None
Writer(w) == writers[w][1]

\* The caller's view of a writer: the events submitted to it (log), the names
\* of the elements it started and has not ended, innermost last (open),
\* whether every EndElement so far ended an open element, by its name or by
\* none (matched), what each prefix resolved to just before each element still
\* open was started (outer), and, after an EndElement that ended an element,
\* what each prefix resolved to just before that element was started (before).
NoCalls == [log |-> <<>>, open |-> <<>>, matched |-> TRUE, outer |-> <<>>, before |-> None]

Closes(open, name) ==
    /\ open # <<>>
    /\ name = None \/ name = Some(open[Len(open)])

\* What the caller gets from resolve for each prefix.
Resolved(self) == [p \in Prefixes |-> resolve(self.emitter.nst, p)]

Called(c, event, self) ==
    [log |-> Append(c.log, event),
     open |-> CASE event.type = "StartElement" -> Append(c.open, event.name)
                [] event.type = "EndElement" /\ c.open # <<>> ->
                     SubSeq(c.open, 1, Len(c.open) - 1)
                [] OTHER -> c.open,
     matched |-> c.matched /\ (event.type = "EndElement" => Closes(c.open, event.name)),
     outer |-> CASE event.type = "StartElement" -> Append(c.outer, Resolved(self))
                 [] event.type = "EndElement" /\ c.outer # <<>> ->
                      SubSeq(c.outer, 1, Len(c.outer) - 1)
                 [] OTHER -> c.outer,
     before |-> IF event.type = "EndElement" /\ c.outer # <<>>
                THEN Some(c.outer[Len(c.outer)])
                ELSE None]

\* One writer, constructed with any configuration.
Init ==
    /\ \E config \in Configs :
         writers = [w \in WriterIds |-> IF w = 1 THEN Some(new_with_config(config)) ELSE None]
    /\ last = NoCall
    /\ calls = [w \in WriterIds |-> NoCalls]
    /\ budget = [events |-> MaxEvents, other |-> MaxOtherEvents, new |-> 0]

\* self.write(event) on writer w.
Submit(w, event) ==
    LET r == write(Writer(w), event)
    IN  /\ writers' = [writers EXCEPT ![w] = Some(r.writer)]
        /\ last' = [op |-> "write", w |-> w, event |-> Some(event), res |-> r.res,
                    pre |-> writers[w], ret |-> None]
        /\ calls' = [calls EXCEPT ![w] = Called(@, event, Writer(w))]

\* The run accepts one more element event, or one more event of another kind.
TakeElementEvent ==
    /\ budget.events > 0
    /\ budget' = [budget EXCEPT !.events = @ - 1]
TakeOtherEvent ==
    /\ budget.events > 0
    /\ budget.other > 0
    /\ budget' = [budget EXCEPT !.events = @ - 1, !.other = @ - 1]

WriteStartDocument(w) ==
    /\ Live(w)
    /\ TakeOtherEvent
    /\ \E event \in StartDocuments : Submit(w, event)

WriteProcessingInstruction(w) ==
    /\ Live(w)
    /\ TakeOtherEvent
    /\ \E event \in ProcessingInstructions : Submit(w, event)

WriteStartElement(w) ==
    /\ Live(w)
    /\ TakeElementEvent
    /\ \E event \in StartElements : Submit(w, event)

WriteEndElement(w) ==
    /\ Live(w)
    /\ TakeElementEvent
    /\ \E name \in EndNames : Submit(w, EndElement(name))

WriteComment(w) ==
    /\ Live(w)
    /\ TakeOtherEvent
    /\ \E content \in CommentTexts : Submit(w, Comment(content))

WriteCData(w) ==
    /\ Live(w)
    /\ TakeOtherEvent
    /\ \E content \in CDataTexts : Submit(w, CData(content))

WriteCharacters(w) ==
    /\ Live(w)
    /\ TakeOtherEvent
    /\ \E content \in CharactersTexts : Submit(w, Characters(content))

Next ==
    \E w \in WriterIds :
        \/ WriteStartDocument(w)
        \/ WriteProcessingInstruction(w)
        \/ WriteStartElement(w)
        \/ WriteEndElement(w)
        \/ WriteComment(w)
        \/ WriteCData(w)
        \/ WriteCharacters(w)

Spec == Init /\ [][Next]_vars

----------------------------------------------------------------------------
(* Element events only, on one fresh writer: longer runs, deeper nesting.  *)

InitElements ==
    /\ \E config \in Configs :
         writers = [w \in WriterIds |-> IF w = 1 THEN Some(new_with_config(config)) ELSE None]
    /\ last = NoCall
    /\ calls = [w \in WriterIds |-> NoCalls]
    /\ budget = [events |-> MaxElementEvents, other |-> 0, new |-> 0]

NextElements == \E w \in WriterIds : WriteStartElement(w) \/ WriteEndElement(w)

SpecElements == InitElements /\ [][NextElements]_vars

----------------------------------------------------------------------------
(* Writers constructed and consumed while others live, with element events *)
(* submitted to them.                                                      *)

\* The configurations given to the writers of these runs.
IsoConfigs ==
    {c \in Configs : /\ c.perform_escaping /\ c.write_document_declaration
                     /\ ~c.cdata_to_characters /\ ~c.pad_self_closing}

InitIso ==
    /\ \E config \in IsoConfigs :
         writers = [w \in WriterIds |-> IF w = 1 THEN Some(new_with_config(config)) ELSE None]
    /\ last = NoCall
    /\ calls = [w \in WriterIds |-> NoCalls]
    /\ budget = [events |-> IsoEvents, other |-> 0, new |-> MaxNew]

\* EventWriter::new_with_config(config), the new writer held under a free id.
New(w) ==
    /\ ~Live(w)
    /\ budget.new > 0
    /\ \E config \in IsoConfigs :
         /\ writers' = [writers EXCEPT ![w] = Some(new_with_config(config))]
         /\ last' = [op |-> "new", w |-> w, event |-> None, res |-> Ok,
                     pre |-> None, ret |-> None]
    /\ calls' = [calls EXCEPT ![w] = NoCalls]
    /\ budget' = [budget EXCEPT !.new = @ - 1]

\* writer.inner_mut(): the caller gets the sink; the writer is as it was.
InnerMut(w) ==
    /\ Live(w)
    /\ last.op # "inner_mut"
    /\ last' = [op |-> "inner_mut", w |-> w, event |-> None, res |-> Ok,
                pre |-> writers[w], ret |-> Some(SinkText(inner_mut(Writer(w))))]
    /\ UNCHANGED <<writers, calls, budget>>

\* writer.into_inner(): the caller gets the sink; the writer is gone.
IntoInner(w) ==
    /\ Live(w)
    /\ writers' = [writers EXCEPT ![w] = None]
    /\ last' = [op |-> "into_inner", w |-> w, event |-> None, res |-> Ok,
                pre |-> writers[w], ret |-> Some(SinkText(into_inner(Writer(w))))]
    /\ UNCHANGED <<calls, budget>>

NextIso ==
    \/ NextElements
    \/ \E w \in WriterIds : New(w)
    \/ \E w \in WriterIds : InnerMut(w)
    \/ \E w \in WriterIds : IntoInner(w)

SpecIso == InitIso /\ [][NextIso]_vars

----------------------------------------------------------------------------
(* The escaping engine and the textual form of an attribute, on their own. *)

\* The value of the attribute of tests::attribute_display.
TestValue ==
    <<"i", "t", "s", " ", "v", "a", "l", "u", "e", " ", "w", "i", "t", "h", " ",
      ">", " ", "&", " ", "\"", " ", "'", " ", "<", " ",
      "w", "e", "i", "r", "d", " ", "s", "y", "m", "b", "o", "l", "s">>

\* The call to make: a text to escape in a context, or an attribute to show.
InitEscape ==
    /\ writers = [w \in WriterIds |-> None]
    /\ calls = [w \in WriterIds |-> NoCalls]
    /\ budget = [events |-> 0, other |-> 0, new |-> 0]
    /\ \/ \E ctx \in Contexts, text \in TextsUpTo(MaxLen) :
            last = [op |-> "to escape", w |-> 0, event |-> Some([ctx |-> ctx, text |-> text]),
                    res |-> Ok, pre |-> None, ret |-> None]
       \/ \E name \in {AttrName, NameB}, value \in TextsUpTo(MaxLen) \cup {TestValue} :
            last = [op |-> "to display", w |-> 0, event |-> Some(Attribute(name, value)),
                    res |-> Ok, pre |-> None, ret |-> None]

\* Escaped::<ctx>::new(text), consumed to the end.
Escape ==
    /\ last.op = "to escape"
    /\ last' = [last EXCEPT !.op = "escape",
                            !.ret = Some(Escaped(Unwrap(last.event).ctx, Unwrap(last.event).text))]
    /\ UNCHANGED <<writers, calls, budget>>

\* attribute.to_string()
Display ==
    /\ last.op = "to display"
    /\ last' = [last EXCEPT !.op = "display",
                            !.ret = Some(AttributeDisplay(Unwrap(last.event)))]
    /\ UNCHANGED <<writers, calls, budget>>

NextEscape == Escape \/ Display

SpecEscape == InitEscape /\ [][NextEscape]_vars

----------------------------------------------------------------------------
(* Properties.  They speak of the last call through these names.           *)

IsWrite == last.op = "write"
Ev == Unwrap(last.event)          \* the event of the last write call
Pre == Unwrap(last.pre)           \* the writer before the last call
Post == Writer(last.w)            \* the writer after the last write call
PreCalls == SubSeq(calls[last.w].log, 1, Len(calls[last.w].log) - 1)
Depth(writer) == Len(writer.emitter.nst)

\* The text a call appended: SinkText(after) = SinkText(before) \o text.
Appended(before, after, text) == SinkText(after.sink) = SinkText(before.sink) \o text

(* C1: in a run of StartElement and EndElement calls on a fresh writer where *)
(* every EndElement ends an open element, the namespace stack is empty       *)
(* exactly when every started element has been ended, and it holds one scope *)
(* per element still open; an EndElement that finds the namespace stack      *)
(* empty leaves it empty.                                                    *)
C1_DepthZeroIffAllClosed ==
    /\ \A w \in WriterIds :
         (Live(w) /\ calls[w].matched) =>
             /\ (Depth(Writer(w)) = 0) <=> (calls[w].open = <<>>)
             /\ Depth(Writer(w)) = Len(calls[w].open)
    /\ (IsWrite /\ Ev.type = "EndElement" /\ Depth(Pre) = 0) =>
           /\ Post.emitter.nst = <<>>
           /\ Depth(Post) = 0

\* Two nested elements were started and both ended: depth 2 came back to 0.
C1_Witness ==
    /\ IsWrite /\ Ev.type = "EndElement"
    /\ calls[last.w].matched
    /\ Len(calls[last.w].log) = 4
    /\ calls[last.w].log[2].type = "StartElement"
    /\ calls[last.w].log[3].type = "EndElement"
    /\ Depth(Pre) = 1
    /\ Depth(Post) = 0

(* C2: an EndElement that directly follows the StartElement of the element   *)
(* it ends closes the still pending start tag: with normalize_empty_elements *)
(* by the self-closing terminator, so that the output ends in "/>", without  *)
(* it by ">" and the end tag </name>.  StartElement n:a binding n to         *)
(* urn:namespace and then EndElement on a fresh writer, collapsed, without   *)
(* pad_self_closing and without write_document_declaration, give exactly     *)
(* <n:a xmlns:n="urn:namespace"/>.                                           *)
C2_Pair ==
    /\ IsWrite /\ Ev.type = "EndElement"
    /\ Len(calls[last.w].log) >= 2
    /\ calls[last.w].log[Len(calls[last.w].log) - 1].type = "StartElement"
    /\ Ev.name \in {None, Some(calls[last.w].log[Len(calls[last.w].log) - 1].name)}

\* The pair closes as the policy says.
C2_Form ==
    LET start == calls[last.w].log[Len(calls[last.w].log) - 1]
        config == Pre.emitter.config
    IN  /\ last.res = Ok
        /\ Pre.emitter.just_wrote_start_element
        /\ IF config.normalize_empty_elements
           THEN \/ Appended(Pre, Post, "/>")
                \/ config.pad_self_closing /\ Appended(Pre, Post, " />")
           ELSE Appended(Pre, Post, "></" \o ReprDisplay(start.name) \o ">")

\* The pair is that of the example, the only events of a collapsing writer.
C2_Example ==
    /\ Len(calls[last.w].log) = 2
    /\ calls[last.w].log[1] = StartElement(NameA, <<>>, Bindings(NoUri, "urn:namespace"))
    /\ Pre.emitter.config.normalize_empty_elements

C2_EmptyElementForm ==
    C2_Pair =>
        /\ C2_Form
        /\ ( /\ C2_Example
             /\ ~Pre.emitter.config.pad_self_closing
             /\ ~Pre.emitter.config.write_document_declaration )
           => SinkText(Post.sink) = "<n:a xmlns:n=\"urn:namespace\"/>"

\* C2 as first stated: the example holds whenever normalize_empty_elements is on.
C2_AsStated ==
    C2_Pair =>
        /\ C2_Form
        /\ C2_Example => SinkText(Post.sink) = "<n:a xmlns:n=\"urn:namespace\"/>"

\* The pair of the example has been written and collapsed.
C2_Witness ==
    /\ C2_Pair
    /\ C2_Example
    /\ SinkText(Post.sink) = "<n:a xmlns:n=\"urn:namespace\"/>"

(* C3: escaping replaces & by &amp;, < by &lt; and > by &gt; in both         *)
(* contexts, " by &quot; and ' by &apos; in attribute context only, and      *)
(* passes every other character through, in order; an attribute is shown as  *)
(* name="value" with the value escaped in attribute context.                 *)
C3_Replacement(ctx, c) ==
    IF c = "&" THEN <<"&", "a", "m", "p", ";">>
    ELSE IF c = "<" THEN <<"&", "l", "t", ";">>
    ELSE IF c = ">" THEN <<"&", "g", "t", ";">>
    ELSE IF c = "\"" /\ ctx = "Attribute" THEN <<"&", "q", "u", "o", "t", ";">>
    ELSE IF c = "'" /\ ctx = "Attribute" THEN <<"&", "a", "p", "o", "s", ";">>
    ELSE <<c>>

RECURSIVE C3_Offset(_, _, _)
\* Where the replacement of the i-th character of text starts in the output.
C3_Offset(ctx, text, i) ==
    IF i = 1 THEN 0
    ELSE C3_Offset(ctx, text, i - 1) + Len(C3_Replacement(ctx, text[i - 1]))

C3_IsEscapeOf(out, ctx, text) ==
    /\ Len(out) = C3_Offset(ctx, text, Len(text) + 1)
    /\ \A i \in 1..Len(text) :
         SubSeq(out, C3_Offset(ctx, text, i) + 1, C3_Offset(ctx, text, i + 1))
             = C3_Replacement(ctx, text[i])

C3_Escaping ==
    /\ last.op = "escape" =>
           C3_IsEscapeOf(Unwrap(last.ret), Unwrap(last.event).ctx, Unwrap(last.event).text)
    /\ last.op = "display" =>
           /\ LET out == Escaped(AttributeEscapes, Unwrap(last.event).value)
              IN  /\ C3_IsEscapeOf(out, "Attribute", Unwrap(last.event).value)
                  /\ Unwrap(last.ret)
                       = NameDisplay(Unwrap(last.event).name) \o "=\"" \o Str(out) \o "\""
           /\ Unwrap(last.event) = Attribute(AttrName, TestValue) =>
                Unwrap(last.ret) =
                    "{urn:namespace}n:attribute=\"its value with &gt; &amp; &quot; &apos; &lt; weird symbols\""

\* The attribute of tests::attribute_display has been shown.
C3_Witness ==
    /\ last.op = "display"
    /\ Unwrap(last.event) = Attribute(AttrName, TestValue)
    /\ Unwrap(last.ret) =
           "{urn:namespace}n:attribute=\"its value with &gt; &amp; &quot; &apos; &lt; weird symbols\""

(* C4: EndElement with a name fails with the name-mismatch error whenever an *)
(* element is open and the name differs from that of the innermost open      *)
(* element, and does not fail so when the name equals it or none is given.   *)
C4_Innermost == Pre.emitter.element_names[Len(Pre.emitter.element_names)]

C4_EndElementNameMismatch ==
    (IsWrite /\ Ev.type = "EndElement") =>
        /\ ( /\ Ev.name # None
             /\ Pre.emitter.element_names # <<>>
             /\ Some(C4_Innermost) # Ev.name )
           => last.res = EndElementNameIsNotEqualToLastStartElementName
        /\ ( \/ Ev.name = None
             \/ /\ Pre.emitter.element_names # <<>>
                /\ Ev.name = Some(C4_Innermost) )
           => last.res # EndElementNameIsNotEqualToLastStartElementName

\* An element b is open inside a, and EndElement names a: the error is returned.
C4_Witness ==
    /\ IsWrite /\ Ev.type = "EndElement"
    /\ Len(Pre.emitter.element_names) = 2
    /\ C4_Innermost = NameB
    /\ Ev.name = Some(NameA)
    /\ last.res = EndElementNameIsNotEqualToLastStartElementName

(* C5: Comment fails with the illegal-comment error exactly when its text    *)
(* contains "--" or ends with "-"; otherwise it succeeds and appends         *)
(* <!--text-->, after the ">" of a pending open tag.                         *)
C5_Illegal(text) ==
    \/ \E i \in 1..(Len(text) - 1) : text[i] = "-" /\ text[i + 1] = "-"
    \/ Len(text) > 0 /\ text[Len(text)] = "-"

C5_Comment ==
    (IsWrite /\ Ev.type = "Comment") =>
        /\ last.res = IllegalCommentContent <=> C5_Illegal(Ev.content)
        /\ ~C5_Illegal(Ev.content) =>
             /\ last.res = Ok
             /\ Appended(Pre, Post,
                         (IF Pre.emitter.just_wrote_start_element THEN ">" ELSE "")
                             \o "<!--" \o Str(Ev.content) \o "-->")
             /\ Post.sink[Len(Post.sink)] = "<!--" \o Str(Ev.content) \o "-->"

\* A comment with a single dash inside, written after a pending open tag.
C5_Witness ==
    /\ IsWrite /\ Ev = Comment(<<"a", "-", "b">>)
    /\ Pre.emitter.just_wrote_start_element
    /\ last.res = Ok
    /\ Post.sink[Len(Post.sink)] = "<!--a-b-->"

(* C6: a write call that returns an error leaves the sink as it was, and the *)
(* emitter as it was, except that on an end-tag name mismatch the namespace  *)
(* stack, the open-name stack and the depth may each have been popped once.  *)
C6_Front(seq) == IF seq = <<>> THEN seq ELSE SubSeq(seq, 1, Len(seq) - 1)

C6_FailureIsAtomic ==
    (IsWrite /\ last.res # Ok) =>
        /\ Post.sink = Pre.sink
        /\ IF last.res = EndElementNameIsNotEqualToLastStartElementName
           THEN /\ Post.emitter.nst \in {Pre.emitter.nst, C6_Front(Pre.emitter.nst)}
                /\ Post.emitter.element_names
                       \in {Pre.emitter.element_names, C6_Front(Pre.emitter.element_names)}
                /\ Post.emitter.indent_level
                       \in {Pre.emitter.indent_level, Pre.emitter.indent_level - 1}
                /\ [Post.emitter EXCEPT !.nst = <<>>, !.element_names = <<>>,
                                        !.indent_level = 0]
                     = [Pre.emitter EXCEPT !.nst = <<>>, !.element_names = <<>>,
                                           !.indent_level = 0]
           ELSE Post.emitter = Pre.emitter

\* An illegal comment is refused while a start tag is pending in a nested element.
C6_Witness ==
    /\ IsWrite /\ Ev.type = "Comment"
    /\ last.res = IllegalCommentContent
    /\ Pre.emitter.just_wrote_start_element
    /\ Len(Pre.emitter.nst) = 2
    /\ Post = Pre

(* C7: StartDocument fails with a declaration error whenever a declaration   *)
(* is already in the sink, submitted or written on the caller's behalf, or a *)
(* root element has been started; so the sink never holds more than one     *)
(* declaration, and never one after a start tag.                             *)
C7_Declarations ==
    {DefaultDeclaration} \cup
    {Declaration(e.version, UnwrapOr(e.encoding, "UTF-8"), e.standalone) : e \in StartDocuments}

C7_StartTags ==
    {"<" \o ReprDisplay(e.name) \o AttributesText(c, e.attributes)
         \o ScopeText(e.namespace, PrefixOrder) : e \in StartElements, c \in Configs}

C7_IsDeclaration(piece) == piece \in C7_Declarations
C7_IsStartTag(piece) == piece \in C7_StartTags

C8_HasTerminator(text) ==
    \E i \in 1..(Len(text) - 2) : text[i] = "]" /\ text[i + 1] = "]" /\ text[i + 2] = ">"

C8_CDataTerminatorFails ==
    (IsWrite /\ Ev.type = "CData") =>
        IF Pre.emitter.config.cdata_to_characters
        THEN last.res = Ok
        ELSE IF C8_HasTerminator(Ev.content)
        THEN last.res = IllegalCDataContent
        ELSE /\ last.res = Ok
             /\ Appended(Pre, Post,
                         (IF Pre.emitter.just_wrote_start_element THEN ">" ELSE "")
                             \o "<![CDATA[" \o Str(Ev.content) \o "]]>")

(* C9: ProcessingInstruction fails with the reserved-name error exactly when *)
(* its name is "xml" in any letter case; otherwise it appends <?name data?>, *)
(* or <?name?> without data, after the ">" of a pending open tag.            *)
C9_Reserved(name) ==
    /\ Len(name) = 3
    /\ name[1] \in {"x", "X"} /\ name[2] \in {"m", "M"} /\ name[3] \in {"l", "L"}

C9_ProcessingInstruction ==
    (IsWrite /\ Ev.type = "ProcessingInstruction") =>
        /\ last.res = ReservedProcessingInstructionName <=> C9_Reserved(Ev.name)
        /\ ~C9_Reserved(Ev.name) =>
             LET pi == IF Ev.data = None
                       THEN "<?" \o Str(Ev.name) \o "?>"
                       ELSE "<?" \o Str(Ev.name) \o " " \o Unwrap(Ev.data) \o "?>"
             IN  /\ last.res = Ok
                 /\ Appended(Pre, Post,
                             (IF Pre.emitter.just_wrote_start_element THEN ">" ELSE "") \o pi)
                 /\ Post.sink[Len(Post.sink)] = pi

\* A processing instruction with data has been written inside an element.
C9_Witness ==
    /\ IsWrite /\ Ev = ProcessingInstruction(<<"p", "i">>, Some("d"))
    /\ Pre.emitter.just_wrote_start_element
    /\ last.res = Ok
    /\ Post.sink[Len(Post.sink)] = "<?pi d?>"

(* C10: a writer starts blank whatever was submitted to earlier writers; a   *)
(* call on one writer changes no other writer; inner_mut and into_inner      *)
(* write nothing.                                                            *)
C10_Blank(writer) ==
    /\ writer.sink = <<>>
    /\ writer.emitter.nst = <<>>
    /\ writer.emitter.indent_level = 0
    /\ writer.emitter.element_names = <<>>
    /\ ~writer.emitter.just_wrote_start_element

C10_Calls ==
    /\ last.op = "new" => C10_Blank(Writer(last.w))
    /\ last.op = "inner_mut" =>
           /\ writers[last.w] = last.pre
           /\ last.ret = Some(SinkText(Pre.sink))
    /\ last.op = "into_inner" => last.ret = Some(SinkText(Pre.sink))

C10_OthersUntouched ==
    \A w \in WriterIds : writers'[w] # writers[w] => last'.w = w

C10_WritersAreIsolated == []C10_Calls /\ [][C10_OthersUntouched]_vars

\* A writer with open elements was consumed and a new one constructed in its
\* place, which is blank.
C10_Witness ==
    /\ last.op = "new" /\ last.w = 1
    /\ writers[2] = None
    /\ budget.events = 0
    /\ C10_Blank(Writer(1))

(* C11: after every write call, failed or not, the namespace stack holds as  *)
(* many scopes as elements are open: as the emitter's depth, as the length   *)
(* of the open-name stack, and as the elements the caller started and has    *)
(* not ended.  StartElement adds one scope and EndElement releases one, also *)
(* when the element is written self-closing.                                 *)
C11_Balanced(w) ==
    /\ Depth(Writer(w)) = Writer(w).emitter.indent_level
    /\ Depth(Writer(w)) = Len(Writer(w).emitter.element_names)
    /\ Depth(Writer(w)) = Len(calls[w].open)

C11_SelfClosed ==
    /\ IsWrite /\ Ev.type = "EndElement" /\ last.res = Ok
    /\ Pre.emitter.just_wrote_start_element
    /\ Pre.emitter.config.normalize_empty_elements

C11_WitnessAfterError ==
    /\ IsWrite /\ last.res # Ok
    /\ Depth(Pre) = 2
    /\ C11_Balanced(last.w)

(* C12: a start tag is pending exactly when the last successful write call   *)
(* was a StartElement.  When one is pending and StartElement, Comment,       *)
(* CData, Characters or ProcessingInstruction succeeds, ">" is appended      *)
(* first, before anything the event writes, and the tag is no longer         *)
(* pending.  So in the sink every start tag is followed by its terminator,   *)
(* ">" or the self-closing one, and by nothing else, or it is last and still *)
(* pending; and a terminator follows nothing but a start tag.                *)
C12_ContentEvents ==
    {"StartElement", "Comment", "CData", "Characters", "ProcessingInstruction"}

C12_IsTerminator(piece) == piece \in {">", "/>", " />"}

C12_Flag ==
    IsWrite =>
        IF last.res = Ok
        THEN Post.emitter.just_wrote_start_element <=> (Ev.type = "StartElement")
        ELSE Post.emitter.just_wrote_start_element = Pre.emitter.just_wrote_start_element

C12_Resolved ==
    ( /\ IsWrite /\ last.res = Ok
      /\ Ev.type \in C12_ContentEvents
      /\ Pre.emitter.just_wrote_start_element )
    => /\ Len(Post.sink) > Len(Pre.sink) + 1
       /\ SubSeq(Post.sink, 1, Len(Pre.sink)) = Pre.sink
       /\ Post.sink[Len(Pre.sink) + 1] = ">"
       /\ \A i \in (Len(Pre.sink) + 2)..Len(Post.sink) : ~C12_IsTerminator(Post.sink[i])
       /\ Ev.type # "StartElement" => ~Post.emitter.just_wrote_start_element

C12_Terminated(w) ==
    LET sink == Writer(w).sink
    IN  /\ \A i \in 1..Len(sink) :
             C7_IsStartTag(sink[i]) =>
                 IF i = Len(sink)
                 THEN Writer(w).emitter.just_wrote_start_element
                 ELSE C12_IsTerminator(sink[i + 1])
        /\ \A i \in 1..Len(sink) :
             C12_IsTerminator(sink[i]) => (i > 1 /\ C7_IsStartTag(sink[i - 1]))
        /\ Writer(w).emitter.just_wrote_start_element =>
             (sink # <<>> /\ C7_IsStartTag(sink[Len(sink)]))

C12_LazyTagTermination ==
    /\ Init => \A w \in WriterIds : Live(w) => ~Writer(w).emitter.just_wrote_start_element
    /\ C12_Flag
    /\ C12_Resolved
    /\ \A w \in WriterIds : Live(w) => C12_Terminated(w)

\* Text was written into an element whose start tag was pending: ">" came first.
C12_Witness ==
    /\ IsWrite /\ Ev.type = "Characters" /\ last.res = Ok
    /\ Pre.emitter.just_wrote_start_element
    /\ ~Post.emitter.just_wrote_start_element
    /\ Len(Post.sink) = Len(Pre.sink) + 2
    /\ C7_IsStartTag(Post.sink[Len(Pre.sink)])
    /\ Post.sink[Len(Pre.sink) + 1] = ">"

(* C13: EndElement removes the top namespace scope whatever the emitter      *)
(* returned.  When its name differs from that of the innermost open element  *)
(* the call returns the name-mismatch error and the namespace stack, which   *)
(* was not empty, is left with exactly one scope fewer, the others as they   *)
(* were.                                                                     *)
C13_Mismatch ==
    /\ IsWrite /\ Ev.type = "EndElement"
    /\ Ev.name # None
    /\ Pre.emitter.element_names # <<>>
    /\ ~NameEq(Unwrap(Ev.name), Pre.emitter.element_names[Len(Pre.emitter.element_names)])

C13_EndElementAlwaysPops ==
    /\ (IsWrite /\ Ev.type = "EndElement") =>
           Post.emitter.nst = IF Pre.emitter.nst = <<>> THEN <<>>
                              ELSE SubSeq(Pre.emitter.nst, 1, Len(Pre.emitter.nst) - 1)
    /\ C13_Mismatch =>
           /\ last.res = EndElementNameIsNotEqualToLastStartElementName
           /\ Pre.emitter.nst # <<>>
           /\ Depth(Post) = Depth(Pre) - 1

\* EndElement b inside a, where a binds n: the error, and a's scope is gone.
C13_Witness ==
    /\ C13_Mismatch
    /\ last.res = EndElementNameIsNotEqualToLastStartElementName
    /\ Depth(Pre) = 1
    /\ Pre.emitter.nst[1]["n"] = "urn:namespace"
    /\ Post.emitter.nst = <<>>

(* C14: StartElement adds one scope on top of the namespace stack, holding   *)
(* exactly the bindings given with the event.  resolve yields for a prefix   *)
(* the URI of the innermost scope that binds it, and nothing when no scope   *)
(* binds it.  After the EndElement that ends an element every prefix         *)
(* resolves to what it resolved to just before that element was started.     *)
C14_Binders(nst, p) == {i \in 1..Len(nst) : nst[i][p] # NoUri}

C14_Innermost(nst, p) ==
    CHOOSE i \in C14_Binders(nst, p) : \A j \in C14_Binders(nst, p) : j <= i

C14_Resolves(nst) ==
    \A p \in Prefixes :
        IF C14_Binders(nst, p) = {}
        THEN resolve(nst, p) = NoUri
        ELSE resolve(nst, p) = nst[C14_Innermost(nst, p)][p]

C14_NamespaceScoping ==
    /\ (IsWrite /\ Ev.type = "StartElement") =>
           /\ Len(Post.emitter.nst) = Len(Pre.emitter.nst) + 1
           /\ SubSeq(Post.emitter.nst, 1, Len(Pre.emitter.nst)) = Pre.emitter.nst
           /\ \A p \in Prefixes : Post.emitter.nst[Len(Post.emitter.nst)][p] = Ev.namespace[p]
           /\ \A p \in Prefixes :
                resolve(Post.emitter.nst, p) =
                    IF Ev.namespace[p] # NoUri THEN Ev.namespace[p]
                    ELSE resolve(Pre.emitter.nst, p)
    /\ \A w \in WriterIds : Live(w) => C14_Resolves(Writer(w).emitter.nst)
    /\ (IsWrite /\ Ev.type = "EndElement" /\ calls[last.w].before # None) =>
           \A p \in Prefixes :
               resolve(Post.emitter.nst, p) = Unwrap(calls[last.w].before)[p]

\* Element b, which rebinds n and binds the default namespace, was ended
\* inside a: n resolves to a's URI again and the default namespace to nothing.
C14_Witness ==
    /\ IsWrite /\ Ev.type = "EndElement" /\ last.res = Ok
    /\ calls[last.w].before # None
    /\ resolve(Pre.emitter.nst, "n") = "urn:other"
    /\ resolve(Pre.emitter.nst, "") = "urn:default"
    /\ resolve(Post.emitter.nst, "n") = "urn:namespace"
    /\ resolve(Post.emitter.nst, "") = NoUri

\* Element a was started inside b: a's scope does not bind the default
\* namespace, which resolves to the URI b gave it.
C14_WitnessInherited ==
    /\ IsWrite /\ Ev.type = "StartElement"
    /\ Depth(Post) = 2
    /\ Post.emitter.nst[2][""] = NoUri
    /\ resolve(Post.emitter.nst, "") = "urn:default"
    /\ resolve(Post.emitter.nst, "n") = "urn:namespace"

(* C15: on a writer where every EndElement so far ended an open element, by  *)
(* its name or by none, a successful EndElement without a name ends the      *)
(* innermost open element: the open-name stack loses its last name and the   *)
(* depth decreases by one; the end tag written is that of this name, or,     *)
(* when its start tag was still pending, the terminator written follows the  *)
(* start tag of this name.  The sink is then well nested: read from left to  *)
(* right, every end tag and every self-closing terminator ends the last      *)
(* started element not yet ended, so end tags come in the reverse order of   *)
(* their start tags, and the elements left open are those of the open-name   *)
(* stack.                                                                    *)
C15_Names == {e.name : e \in StartElements}

C15_StartTags ==
    [n \in C15_Names |->
        {"<" \o ReprDisplay(e.name) \o AttributesText(c, e.attributes)
             \o ScopeText(e.namespace, PrefixOrder) :
            e \in {x \in StartElements : x.name = n}, c \in Configs}]

C15_StartTagsOf(name) == C15_StartTags[name]

C15_Started(piece) == {n \in C15_Names : piece \in C15_StartTagsOf(n)}
C15_Ended(piece) == {n \in C15_Names : piece = "</" \o ReprDisplay(n) \o ">"}

RECURSIVE C15_Scan(_, _)
\* Reading the pieces of a sink from left to right with the names of the
\* elements started and not yet ended: the names left, and whether every end
\* tag and self-closing terminator ended the last of them.
C15_Scan(sink, open) ==
    IF sink = <<>> THEN [nested |-> TRUE, open |-> open]
    ELSE LET piece == Head(sink)
         IN  IF C15_Started(piece) # {}
             THEN C15_Scan(Tail(sink), Append(open, CHOOSE n \in C15_Started(piece) : TRUE))
             ELSE IF piece \in {"/>", " />"}
             THEN IF open = <<>> THEN [nested |-> FALSE, open |-> open]
                  ELSE C15_Scan(Tail(sink), SubSeq(open, 1, Len(open) - 1))
             ELSE IF C15_Ended(piece) # {}
             THEN IF open = <<>> \/ open[Len(open)] \notin C15_Ended(piece)
                  THEN [nested |-> FALSE, open |-> open]
                  ELSE C15_Scan(Tail(sink), SubSeq(open, 1, Len(open) - 1))
             ELSE C15_Scan(Tail(sink), open)

\* What a successful EndElement without a name did to the innermost element.
C15_ClosesInnermost ==
    LET names == Pre.emitter.element_names
        innermost == names[Len(names)]
    IN  /\ names # <<>>
        /\ Post.emitter.element_names = SubSeq(names, 1, Len(names) - 1)
        /\ Post.emitter.indent_level = Pre.emitter.indent_level - 1
        /\ IF Pre.emitter.just_wrote_start_element /\ Pre.emitter.config.normalize_empty_elements
           THEN /\ Pre.sink # <<>>
                /\ Pre.sink[Len(Pre.sink)] \in C15_StartTagsOf(innermost)
                /\ Appended(Pre, Post, "/>") \/ Appended(Pre, Post, " />")
           ELSE /\ Appended(Pre, Post, "</" \o ReprDisplay(innermost) \o ">")
                   \/ Appended(Pre, Post, "></" \o ReprDisplay(innermost) \o ">")
                /\ Post.sink[Len(Post.sink)] = "</" \o ReprDisplay(innermost) \o ">"

C15_WellNested(w) ==
    /\ C15_Scan(Writer(w).sink, <<>>).nested
    /\ C15_Scan(Writer(w).sink, <<>>).open = Writer(w).emitter.element_names
    /\ Writer(w).emitter.element_names = calls[w].open

C15_UnnamedEnd == IsWrite /\ Ev = EndElement(None) /\ last.res = Ok

C16_Redirected ==
    /\ IsWrite /\ Ev.type \in {"CData", "Characters"}
    /\ Pre.emitter.config.cdata_to_characters

C16_SameAsTheOther ==
    /\ write(Pre, CData(Ev.content)) = write(Pre, Characters(Ev.content))
    /\ write(Pre, CData(Ev.content)) = [res |-> last.res, writer |-> Post]
    /\ last.res = Ok

C16_Text(escaped) ==
    (IF Pre.emitter.just_wrote_start_element THEN ">" ELSE "")
        \o (IF escaped THEN Str(Escaped(PcDataEscapes, Ev.content)) ELSE Str(Ev.content))

C16_CDataAsCharacters ==
    C16_Redirected =>
        /\ C16_SameAsTheOther
        /\ Appended(Pre, Post, C16_Text(Pre.emitter.config.perform_escaping))
        /\ \A i \in (Len(Pre.sink) + 1)..Len(Post.sink) :
             Post.sink[i] # "<![CDATA[" \o Str(Ev.content) \o "]]>"

\* C16 as first stated: the text appended is always the escaped one.
C16_AsStated ==
    C16_Redirected =>
        /\ C16_SameAsTheOther
        /\ Appended(Pre, Post, C16_Text(TRUE))

\* CData with the CDATA terminator in it, redirected and escaped, written into
\* an element whose start tag was pending.
C16_Witness ==
    /\ C16_Redirected
    /\ Ev = CData(<<"a", "]", "]", ">", "b">>)
    /\ Pre.emitter.config.perform_escaping
    /\ Pre.emitter.just_wrote_start_element
    /\ last.res = Ok
    /\ Post.sink[Len(Post.sink)] = "a]]&gt;b"
    /\ Post.emitter = [Pre.emitter EXCEPT !.just_wrote_start_element = FALSE]

(* C17: Characters(t) succeeds and appends, after the ">" of a pending open  *)
(* tag, one piece of text: t unchanged when perform_escaping is off, t       *)
(* escaped as text when it is on, so that &<>"' gives &amp;&lt;&gt;"'.  It   *)
(* leaves no tag pending and changes neither the depth nor the namespace     *)
(* stack nor the open-name stack.                                            *)
C17_Characters == IsWrite /\ Ev.type = "Characters"

C17_Written ==
    IF Pre.emitter.config.perform_escaping
    THEN Str(Escaped(PcDataEscapes, Ev.content))
    ELSE Str(Ev.content)

C17_CharactersEscaping ==
    C17_Characters =>
        /\ last.res = Ok
        /\ Post.sink = Pre.sink
                \o (IF Pre.emitter.just_wrote_start_element THEN <<">">> ELSE <<>>)
                \o <<C17_Written>>
        /\ C3_IsEscapeOf(Escaped(PcDataEscapes, Ev.content), "Text", Ev.content)
        /\ Ev.content = <<"&", "<", ">", "\"", "'">> =>
             Post.sink[Len(Post.sink)] =
                 IF Pre.emitter.config.perform_escaping
                 THEN "&amp;&lt;&gt;\"'"
                 ELSE "&<>\"'"
        /\ ~Post.emitter.just_wrote_start_element
        /\ Post.emitter.indent_level = Pre.emitter.indent_level
        /\ Post.emitter.nst = Pre.emitter.nst
        /\ Post.emitter.element_names = Pre.emitter.element_names

\* Text with & < > was written unescaped into an element whose start tag was
\* pending.
C17_Witness ==
    /\ C17_Characters
    /\ ~Pre.emitter.config.perform_escaping
    /\ Pre.emitter.just_wrote_start_element
    /\ Depth(Pre) = 2 /\ Depth(Post) = 2
    /\ Post.sink[Len(Post.sink)] = "&<>\"'"
    /\ Post.sink[Len(Post.sink) - 1] = ">"

\* The same text was written escaped.
C17_WitnessEscaped ==
    /\ C17_Characters
    /\ Pre.emitter.config.perform_escaping
    /\ Post.sink[Len(Post.sink)] = "&amp;&lt;&gt;\"'"

(* C18: StartDocument, ProcessingInstruction, Comment, CData and Characters  *)
(* leave the namespace stack as it was, scopes and bindings, whether they    *)
(* succeed or fail.  StartElement leaves it one scope deeper, EndElement one *)
(* scope shallower, or empty when it was empty; the scopes below the top one *)
(* are as they were.                                                         *)
C18_ElementEvents == {"StartElement", "EndElement"}

C18_OnlyElementEventsTouchNamespaces ==
    IsWrite =>
        /\ Ev.type \notin C18_ElementEvents => Post.emitter.nst = Pre.emitter.nst
        /\ Ev.type = "StartElement" =>
             /\ Depth(Post) = Depth(Pre) + 1
             /\ SubSeq(Post.emitter.nst, 1, Depth(Pre)) = Pre.emitter.nst
        /\ Ev.type = "EndElement" =>
             /\ Depth(Post) = IF Depth(Pre) = 0 THEN 0 ELSE Depth(Pre) - 1
             /\ Post.emitter.nst = SubSeq(Pre.emitter.nst, 1, Depth(Post))

\* A processing instruction was refused inside two elements with bindings:
\* both scopes are as they were.
C18_Witness ==
    /\ IsWrite /\ Ev.type = "ProcessingInstruction"
    /\ last.res = ReservedProcessingInstructionName
    /\ Depth(Pre) = 2
    /\ Pre.emitter.nst[2]["n"] # NoUri
    /\ Post.emitter.nst = Pre.emitter.nst

\* EndElement on a writer with no scope leaves it without one.
C18_WitnessEmpty ==
    /\ IsWrite /\ Ev.type = "EndElement"
    /\ Depth(Pre) = 0
    /\ Depth(Post) = 0

(* C19: StartDocument without an encoding does what the same event with the  *)
(* encoding UTF-8 does: the same result, the same sink, the same emitter.    *)
(* When it succeeds the declaration written names an encoding: UTF-8 when    *)
(* the event gave none, the one given otherwise.                             *)
C19_WithUtf8(event) == [event EXCEPT !.encoding = Some("UTF-8")]

C19_Expected(event) ==
    CASE event = StartDocument("1.0", None, None) ->
             "<?xml version=\"1.0\" encoding=\"UTF-8\"?>"
      [] event = StartDocument("1.0", Some("UTF-8"), None) ->
             "<?xml version=\"1.0\" encoding=\"UTF-8\"?>"
      [] event = StartDocument("1.1", Some("latin1"), Some(TRUE)) ->
             "<?xml version=\"1.1\" encoding=\"latin1\" standalone=\"yes\"?>"

C19_DefaultEncoding ==
    (IsWrite /\ Ev.type = "StartDocument") =>
        /\ Ev.encoding = None =>
             /\ write(Pre, C19_WithUtf8(Ev)) = [res |-> last.res, writer |-> Post]
             /\ write(Pre, C19_WithUtf8(Ev)) = write(Pre, Ev)
        /\ last.res = Ok => Post.sink = Append(Pre.sink, C19_Expected(Ev))
        /\ last.res # Ok => Post.sink = Pre.sink

\* A declaration without an encoding was the first event: it names UTF-8.
C19_Witness ==
    /\ IsWrite /\ Ev = StartDocument("1.0", None, None)
    /\ last.res = Ok
    /\ Post.sink = <<"<?xml version=\"1.0\" encoding=\"UTF-8\"?>">>

============================================================================
